---- MODULE Spec2Model ----
(***************************************************************************)
(* check_ram.py: a Nagios-style memory probe.  The module models one       *)
(* invocation: the command line, main()'s sanity checks and threshold      *)
(* parsing, check_ram()'s read of /proc/meminfo and its comparison, and    *)
(* the script epilogue that prints the message and exits.                  *)
(*                                                                         *)
(* Strings the program slices (the threshold options) are sequences of     *)
(* one-character strings.  Printed lines are sequences of string tokens;   *)
(* Text joins them into the printed text.  A Python float is a record      *)
(* [nan, v]: the model's inputs only produce integer-valued floats and     *)
(* NaN.  None is <<>> and a present value x is <<x>>.                      *)
(***************************************************************************)
EXTENDS Integers, Sequences, FiniteSets, TLC

VARIABLES
    argv,                \* the command line: options and positional args
    pc,                  \* the position of the run in the script
    warning_threshold,   \* main's local, once parsed to a float
    critical_threshold,  \* main's local, once parsed to a float
    w_percent,           \* main's local
    c_percent,           \* main's local
    percent_true,        \* main's local
    meminfo,             \* the lines check_ram read from /proc/meminfo
    mem,                 \* check_ram's locals memtotal .. memavailable
    total_free,          \* check_ram's local, once computed
    result,              \* what main() returned to the script
    stdout,              \* the print calls so far, one entry per call
    exit_code,           \* the process exit status, None while running
    exc                  \* the uncaught exception that ended the run, or ""

vars == <<argv, pc, warning_threshold, critical_threshold, w_percent,
          c_percent, percent_true, meminfo, mem, total_free, result,
          stdout, exit_code, exc>>

(***************************************************************************)
(* Standard exit codes for Nagios.                                         *)
(***************************************************************************)
OK == 0
WARNING == 1
CRITICAL == 2
UNKNOWN == 3

\* What the interpreter exits with after an uncaught exception.
TracebackExit == 1
\* What argparse's parser.error() exits with.
ArgparseErrorExit == 2

(***************************************************************************)
(* Bounds of the model.                                                    *)
(***************************************************************************)
\* -v is a counter; check_ram only tests verbosity >= 3.
MaxVerbosity == 3

(***************************************************************************)
(* Python values.                                                          *)
(***************************************************************************)
None == <<>>
Some(x) == <<x>>

Flt(n) == [nan |-> FALSE, v |-> n]
NaN == [nan |-> TRUE, v |-> 0]

\* float comparisons: every comparison with NaN is False.
FLt(a, b) == ~a.nan /\ ~b.nan /\ a.v < b.v
FGt(a, b) == ~a.nan /\ ~b.nan /\ a.v > b.v
FLe(a, b) == ~a.nan /\ ~b.nan /\ a.v <= b.v
FMul(a, k) == IF a.nan THEN NaN ELSE Flt(a.v * k)
FNeg(a) == IF a.nan THEN NaN ELSE Flt(0 - a.v)

\* int(x / d) for an exact quotient of integers: truncation toward zero,
\* which is also what "%d" does to a float.
TruncDiv(x, d) == IF x >= 0 THEN x \div d ELSE 0 - ((0 - x) \div d)

(***************************************************************************)
(* float(input_value) on the model's alphabet: an optional "-", then       *)
(* decimal digits or "nan".  Anything else raises ValueError (None here).  *)
(***************************************************************************)
Digits == {"0", "1", "2", "3", "4", "5", "6", "7", "8", "9"}

DigitValue(ch) ==
    CASE ch = "0" -> 0 [] ch = "1" -> 1 [] ch = "2" -> 2 [] ch = "3" -> 3
      [] ch = "4" -> 4 [] ch = "5" -> 5 [] ch = "6" -> 6 [] ch = "7" -> 7
      [] ch = "8" -> 8 [] ch = "9" -> 9

RECURSIVE DigitsValue(_)
DigitsValue(s) ==
    IF s = <<>> THEN 0
    ELSE 10 * DigitsValue(SubSeq(s, 1, Len(s) - 1)) + DigitValue(s[Len(s)])

IsDigits(s) == Len(s) > 0 /\ \A i \in 1..Len(s) : s[i] \in Digits

UnsignedFloat(s) ==
    IF IsDigits(s) THEN Some(Flt(DigitsValue(s)))
    ELSE IF s = <<"n", "a", "n">> THEN Some(NaN)
    ELSE None

PyFloat(s) ==
    IF s # <<>> /\ s[1] = "-"
    THEN LET u == UnsignedFloat(Tail(s))
         IN  IF u = None THEN None ELSE Some(FNeg(u[1]))
    ELSE UnsignedFloat(s)

(***************************************************************************)
(* The threshold parser of main(), written twice in the source (once for   *)
(* the warning and once for the critical threshold).                       *)
(***************************************************************************)
megs == {<<"M", "B">>, <<"M", "b">>, <<"m", "b">>, <<"m", "B">>, <<"M">>, <<"m">>}
gigs == {<<"G", "B">>, <<"G", "b">>, <<"g", "b">>, <<"g", "B">>, <<"G">>, <<"g">>}

\* s[-1], s[-2:], s[:-k]
LastChar(s) == <<s[Len(s)]>>
LastTwo(s) == SubSeq(s, IF Len(s) >= 2 THEN Len(s) - 1 ELSE 1, Len(s))
DropLast(s, k) == SubSeq(s, 1, Len(s) - k)

\* get_threshold(input_value) * mult: None when float() raises ValueError
\* (the caller then prints and exits UNKNOWN).
get_threshold(input_value, mult) ==
    LET f == PyFloat(input_value)
    IN  IF f = None THEN None ELSE Some(FMul(f[1], mult))

\* The if/elif chain: [error, value, percent].  error is "IndexError" for
\* the empty string (s[-1]), "ValueError" when get_threshold fails, else "".
ParsedBad(e) == [error |-> e, value |-> Flt(0), percent |-> FALSE]
Parsed(opt, pct) ==
    IF opt = None THEN ParsedBad("ValueError")
    ELSE [error |-> "", value |-> opt[1], percent |-> pct]

\* Faulty variant (mutation test): a one-letter G or g is scaled like M.
OneLetterGigAsMegParseThreshold(s) ==
    IF s = <<>> THEN ParsedBad("IndexError")
    ELSE IF LastChar(s) = <<"%">> THEN Parsed(get_threshold(DropLast(s, 1), 1), TRUE)
    ELSE IF LastTwo(s) \in megs THEN Parsed(get_threshold(DropLast(s, 2), 1024), FALSE)
    ELSE IF LastChar(s) \in megs THEN Parsed(get_threshold(DropLast(s, 1), 1024), FALSE)
    ELSE IF LastTwo(s) \in gigs THEN Parsed(get_threshold(DropLast(s, 2), 1024 * 1024), FALSE)
    ELSE IF LastChar(s) \in gigs THEN Parsed(get_threshold(DropLast(s, 1), 1024), FALSE)
    ELSE Parsed(get_threshold(s, 1), FALSE)

\* lines 216-228 and 230-242
ParseThreshold(s) ==
    IF s = <<>> THEN ParsedBad("IndexError")
    ELSE IF LastChar(s) = <<"%">> THEN Parsed(get_threshold(DropLast(s, 1), 1), TRUE)
    ELSE IF LastTwo(s) \in megs THEN Parsed(get_threshold(DropLast(s, 2), 1024), FALSE)
    ELSE IF LastChar(s) \in megs THEN Parsed(get_threshold(DropLast(s, 1), 1024), FALSE)
    ELSE IF LastTwo(s) \in gigs THEN Parsed(get_threshold(DropLast(s, 2), 1024 * 1024), FALSE)
    ELSE IF LastChar(s) \in gigs THEN Parsed(get_threshold(DropLast(s, 1), 1024 * 1024), FALSE)
    ELSE Parsed(get_threshold(s, 1), FALSE)

(***************************************************************************)
(* check_ram(): the read of /proc/meminfo.                                 *)
(***************************************************************************)
NoStats ==
    [memtotal |-> None, memfree |-> None, memcached |-> None,
     membuffers |-> 0, memavailable |-> None]

\* One pass of the for loop: y = outp.split(), then the if/elif on y[0].
ReadLine(m, y) ==
    IF y.key = "MemTotal:" THEN [m EXCEPT !.memtotal = Some(y.value)]
    ELSE IF y.key = "MemFree:" THEN [m EXCEPT !.memfree = Some(y.value)]
    ELSE IF y.key = "Cached:" THEN [m EXCEPT !.memcached = Some(y.value)]
    ELSE IF y.key = "Buffers:" THEN [m EXCEPT !.membuffers = y.value]
    ELSE IF y.key = "MemAvailable:" THEN [m EXCEPT !.memavailable = Some(y.value)]
    ELSE m

RECURSIVE ReadLines(_, _)
ReadLines(m, output) ==
    IF output = <<>> THEN m
    ELSE ReadLines(ReadLine(m, Head(output)), Tail(output))

Incomplete(m) == m.memtotal = None \/ m.memfree = None \/ m.memcached = None

(***************************************************************************)
(* check_ram(): the free-memory accounting.                                *)
(***************************************************************************)
\* Python truthiness of an int-or-None local.
Truthy(opt) == opt # None /\ opt[1] # 0

\* if nocache: ... elif memavailable: ... else: ...
TotalFree(m, nocache) ==
    IF nocache THEN m.memfree[1]
    ELSE IF Truthy(m.memavailable) THEN m.memavailable[1]
    ELSE m.memfree[1] + m.memcached[1] + m.membuffers

\* Faulty variant (mutation test): used memory follows the free-memory accounting.
FreeBasedTotalUsedMegs(m, nocache) ==
    TruncDiv(m.memtotal[1] - TotalFree(m, nocache), 1024)

\* "%d" of total_used_megs; nocache is not read.
TotalUsedMegs(m, nocache) ==
    TruncDiv(m.memtotal[1] - m.memfree[1] - m.memcached[1] - m.membuffers, 1024)

TotalFreeMegs(free_kb) == TruncDiv(free_kb, 1024)
MemtotalMegs(m) == TruncDiv(m.memtotal[1], 1024)

(***************************************************************************)
(* int(float(total_free) / float(memtotal) * 100) in IEEE-754 doubles.     *)
(* The quotient is rounded to a double before it is multiplied, so an      *)
(* exact percentage n comes out as n - 1 when n/100 rounds down far        *)
(* enough: of the n in 0..200 these are the LossyPercents.  A percentage   *)
(* that is no integer is at least 1/memtotal away from one, far more than  *)
(* the rounding error, and truncates as the exact quotient does.  Valid    *)
(* for 0 <= total_free <= 2 * memtotal < 2^31.                             *)
(***************************************************************************)
LossyPercents == {29, 57, 58, 113, 114, 115, 116}

PercentageFree(free_kb, memtotal) ==
    LET q == (100 * free_kb) \div memtotal
    IN  IF (100 * free_kb) % memtotal = 0 /\ q \in LossyPercents
        THEN q - 1 ELSE q

(***************************************************************************)
(* check_ram(): comparison and message.                                    *)
(***************************************************************************)
UsedOfTotal(used, total) == <<ToString(used), "/", ToString(total), " MB used)">>

\* Faulty variant (mutation test): the warning comparison is reversed.
ReversedWarningPercentBranch(pct, used, total, warning, critical) ==
    IF ~critical.nan /\ pct < critical.v
    THEN [message |-> <<"RAM CRITICAL: ", ToString(pct), "% ram free", " (">>
                      \o UsedOfTotal(used, total),
          state |-> CRITICAL]
    ELSE IF ~warning.nan /\ pct > warning.v
    THEN [message |-> <<"RAM WARNING: ", ToString(pct), "% ram free", " (">>
                      \o UsedOfTotal(used, total),
          state |-> WARNING]
    ELSE [message |-> <<"RAM OK: ", ToString(pct), "% ram free">>, state |-> OK]

\* if percent: ... (critical_threshold and warning_threshold are floats)
PercentBranch(pct, used, total, warning, critical) ==
    IF ~critical.nan /\ pct < critical.v
    THEN [message |-> <<"RAM CRITICAL: ", ToString(pct), "% ram free", " (">>
                      \o UsedOfTotal(used, total),
          state |-> CRITICAL]
    ELSE IF ~warning.nan /\ pct < warning.v
    THEN [message |-> <<"RAM WARNING: ", ToString(pct), "% ram free", " (">>
                      \o UsedOfTotal(used, total),
          state |-> WARNING]
    ELSE [message |-> <<"RAM OK: ", ToString(pct), "% ram free">>, state |-> OK]

\* Faulty variant (mutation test): the OK line carries the parenthetical too.
VerboseOkAbsoluteBranch(free_kb, used, total, warning, critical) ==
    IF ~critical.nan /\ free_kb < critical.v
    THEN [message |-> <<"RAM CRITICAL: ", ToString(TotalFreeMegs(free_kb)),
                        "MB ram free", " (">> \o UsedOfTotal(used, total),
          state |-> CRITICAL]
    ELSE IF ~warning.nan /\ free_kb < warning.v
    THEN [message |-> <<"RAM WARNING: ", ToString(TotalFreeMegs(free_kb)),
                        "MB ram free", " (">> \o UsedOfTotal(used, total),
          state |-> WARNING]
    ELSE [message |-> <<"RAM OK: ", ToString(TotalFreeMegs(free_kb)),
                        "MB ram free", " (">> \o UsedOfTotal(used, total),
          state |-> OK]

\* else: ...
AbsoluteBranch(free_kb, used, total, warning, critical) ==
    IF ~critical.nan /\ free_kb < critical.v
    THEN [message |-> <<"RAM CRITICAL: ", ToString(TotalFreeMegs(free_kb)),
                        "MB ram free", " (">> \o UsedOfTotal(used, total),
          state |-> CRITICAL]
    ELSE IF ~warning.nan /\ free_kb < warning.v
    THEN [message |-> <<"RAM WARNING: ", ToString(TotalFreeMegs(free_kb)),
                        "MB ram free", " (">> \o UsedOfTotal(used, total),
          state |-> WARNING]
    ELSE [message |-> <<"RAM OK: ", ToString(TotalFreeMegs(free_kb)),
                        "MB ram free">>,
          state |-> OK]

\* message += "|memused=%d;%d;" % (total_used_megs, memtotal_megs)
MemusedTag(used, total) == <<"|memused=", ToString(used), ";", ToString(total), ";">>

\* Lines 69-118 for a complete snapshot with memtotal # 0: [message, state].
Evaluate(warning, critical, percent, m, nocache) ==
    LET free_kb == TotalFree(m, nocache)
        used == TotalUsedMegs(m, nocache)
        total == MemtotalMegs(m)
        r == IF percent
             THEN PercentBranch(PercentageFree(free_kb, m.memtotal[1]),
                                used, total, warning, critical)
             ELSE AbsoluteBranch(free_kb, used, total, warning, critical)
    IN  [message |-> r.message \o MemusedTag(used, total), state |-> r.state]

\* The printed text of a line of tokens.
RECURSIVE Text(_)
Text(tokens) == IF tokens = <<>> THEN "" ELSE Head(tokens) \o Text(Tail(tokens))

(***************************************************************************)
(* The inputs of a run: the command line and the contents of               *)
(* /proc/meminfo.                                                          *)
(***************************************************************************)
SmallPrefixes == {<<>>, <<"2">>}
AllPrefixes ==
    {<<>>, <<"2">>, <<"2", "9">>, <<"5", "8">>, <<"1", "5", "0">>, <<"-", "1">>,
     <<"2", "9", "0", "0">>, <<"x">>, <<"n", "a", "n">>}
AllSuffixes == {<<>>, <<"%">>, <<"K", "B">>} \cup megs \cup gigs
FewSuffixes == {<<>>, <<"%">>, <<"M">>}

ThresholdStrings ==
    {p \o x : p \in SmallPrefixes, x \in AllSuffixes}
        \cup {p \o x : p \in AllPrefixes, x \in FewSuffixes}

\* -w / -c absent (None) or given with a string.
ThresholdOptions == {None} \cup {Some(t) : t \in ThresholdStrings}

CommandLines ==
    [warning_threshold : ThresholdOptions,
     critical_threshold : ThresholdOptions,
     nocache : BOOLEAN,
     verbosity : 0..MaxVerbosity,
     args : {<<>>, <<"extra">>}]

Line(key, opt) == IF opt = None THEN <<>> ELSE <<[key |-> key, value |-> opt[1]]>>

File(t, f, a, b, c) ==
    Line("MemTotal:", t) \o Line("MemFree:", f) \o Line("MemAvailable:", a)
        \o Line("Buffers:", b) \o Line("Cached:", c)
        \o <<[key |-> "SwapCached:", value |-> 0]>>

\* Values in kB as the kernel reports them: free + buffers + cached and
\* available never exceed the total, and the total is positive.  The
\* incomplete files (one mandatory key missing) carry no optional keys.
MeminfoFiles ==
    {File(Some(5000), f, a, b, Some(1450)) :
        f \in {Some(1450), Some(2900)},
        a \in {None, Some(0), Some(1450), Some(4350)},
        b \in {None, Some(100)}}
    \cup {File(None, Some(f), None, None, Some(1450)) : f \in {1450, 2900}}
    \cup {File(Some(5000), None, None, None, Some(1450))}
    \cup {File(Some(5000), Some(f), None, None, None) : f \in {1450, 2900}}

OpenErrors ==
    {"[Errno 2] No such file or directory: '/proc/meminfo'",
     "[Errno 13] Permission denied: '/proc/meminfo'"}

(***************************************************************************)
(* The state before the first statement.  Locals not yet assigned hold a   *)
(* placeholder; w_percent and c_percent start False as in the source.      *)
(***************************************************************************)
NoResult == [kind |-> "none", message |-> <<>>, state |-> 0]
IntResult(code) == [kind |-> "int", message |-> <<>>, state |-> code]
ListResult(r) == [kind |-> "list", message |-> r.message, state |-> r.state]

Start(at) ==
    /\ argv \in CommandLines
    /\ pc = at
    /\ warning_threshold = Flt(0)
    /\ critical_threshold = Flt(0)
    /\ w_percent = FALSE
    /\ c_percent = FALSE
    /\ percent_true = FALSE
    /\ meminfo = <<>>
    /\ mem = NoStats
    /\ total_free = 0
    /\ result = NoResult
    /\ stdout = <<>>
    /\ exit_code = None
    /\ exc = ""

\* How a statement ends the process or the function it is in.
Exit(code) == pc' = "exited" /\ exit_code' = Some(code) /\ exc' = ""
Crash(e) == pc' = "exited" /\ exit_code' = Some(TracebackExit) /\ exc' = e
Return(r) == pc' = "returned" /\ result' = r /\ UNCHANGED <<exit_code, exc>>
Goto(at) == pc' = at /\ UNCHANGED <<exit_code, exc>>
PrintLine(tokens) == stdout' = Append(stdout, tokens)

(***************************************************************************)
(* parser.print_help(): argparse's HelpFormatter on the parser of lines     *)
(* 124-166.  The text depends on the terminal width (COLUMNS): the help of  *)
(* each option is wrapped to columns - 2 - HelpPosition characters.  Valid  *)
(* for columns >= 80, where the usage line fits on one line.                *)
(***************************************************************************)
\* The terminal widths a run may see.
Columns == {80, 200}

\* argparse's max_help_position: the column the option help starts in.
HelpPosition == 24

HelpWords ==
    <<"show", "this", "help", "message", "and", "exit">>
NocacheWords ==
    <<"Do", "not", "include", "cache", "as", "free", "ram.", "Linux",
      "tends", "to", "gobble", "up", "free", "ram", "as", "disk", "cache,",
      "but", "this", "is", "freely", "reusable", "so", "this", "plugin",
      "counts", "it", "as", "free", "space", "by", "default", "since",
      "this", "is", "nearly", "always", "what", "you", "want.", "This",
      "switch", "disables", "this", "behaviour", "so", "you", "use", "only",
      "the", "pure", "free", "ram.", "Not", "advised.">>
CriticalWords ==
    <<"Critical", "threshold.", "Returns", "a", "critical", "status", "if",
      "the", "amount", "of", "free", "ram", "is", "less", "than", "this",
      "number.", "Specify", "KB,MB", "or", "GB", "after", "to", "specify",
      "units", "of", "KiloBytes,", "MegaBytes", "or", "GigaBytes",
      "respectively", "or", "%", "afterwards", "to", "indicatea",
      "percentage.", "KiloBytes", "is", "used", "if", "not", "specified">>
VerboseWords ==
    <<"Verbose", "mode.", "Good", "for", "testing", "plugin.", "By",
      "default", "only", "one", "result", "line", "is", "printed", "as",
      "per", "Nagios", "standards.", "Use", "multiple", "times", "for",
      "increasing", "verbosity", "(3", "times", "=", "debug)">>
WarningWords ==
    <<"warning", "threshold.", "Returns", "a", "warning", "status", "if",
      "the", "amount", "of", "free", "ram", "is", "less", "than", "this",
      "number.", "Specify", "KB,MB", "or", "GB", "after", "to", "specify",
      "units", "of", "KiloBytes,", "MegaBytes", "or", "GigaBytes",
      "respectively", "or", "%", "afterwards", "to", "indicate", "a",
      "percentage.", "KiloBytes", "is", "used", "if", "not", "specified">>

RECURSIVE Spaces(_)
Spaces(n) == IF n <= 0 THEN "" ELSE " " \o Spaces(n - 1)

\* textwrap.wrap: as many words on a line as fit in width, one space apart.
RECURSIVE Wrap(_, _, _, _)
Wrap(words, width, cur, done) ==
    IF words = <<>> THEN (IF cur = "" THEN done ELSE Append(done, cur))
    ELSE IF cur = "" THEN Wrap(Tail(words), width, Head(words), done)
    ELSE IF Len(cur) + 1 + Len(Head(words)) <= width
    THEN Wrap(Tail(words), width, cur \o " " \o Head(words), done)
    ELSE Wrap(Tail(words), width, Head(words), Append(done, cur))

\* One option: its invocation, then its help from column HelpPosition on; the
\* help starts on the invocation's line when the invocation leaves two
\* spaces before that column.
OptionLines(invocation, words, columns) ==
    LET help == Wrap(words, columns - 2 - HelpPosition, "", <<>>)
    IN  IF Len(invocation) <= HelpPosition - 4
        THEN <<"  " \o invocation \o Spaces(HelpPosition - 2 - Len(invocation))
                    \o help[1]>>
             \o [i \in 1..(Len(help) - 1) |-> Spaces(HelpPosition) \o help[i + 1]]
        ELSE <<"  " \o invocation>>
             \o [i \in 1..Len(help) |-> Spaces(HelpPosition) \o help[i]]

HelpLines(columns) ==
    <<"usage: check_ram [-h] [-n] [-c CRITICAL_THRESHOLD] [-v] [-w WARNING_THRESHOLD]",
      "", "health check for ram", "", "options:">>
    \o OptionLines("-h, --help", HelpWords, columns)
    \o OptionLines("-n, --no-include-cache", NocacheWords, columns)
    \o OptionLines("-c CRITICAL_THRESHOLD, --critical CRITICAL_THRESHOLD",
                   CriticalWords, columns)
    \o OptionLines("-v, --verbose", VerboseWords, columns)
    \o OptionLines("-w WARNING_THRESHOLD, --warning WARNING_THRESHOLD",
                   WarningWords, columns)
    \o <<"", "yet another ram check">>

\* The lines as the tokens of one entry of stdout (the entry's own newline
\* ends the last line).
RECURSIVE JoinLines(_)
JoinLines(lines) ==
    IF Len(lines) <= 1 THEN lines
    ELSE <<Head(lines), "\n">> \o JoinLines(Tail(lines))

Usage == [columns \in Columns |-> JoinLines(HelpLines(columns))]

(***************************************************************************)
(* The script as shipped.  argparse's parse_args() returns one Namespace   *)
(* (and exits with an error on a positional argument); unpacking it into   *)
(* "options, args" raises TypeError, which nothing catches.                *)
(***************************************************************************)
UnrecognizedArguments ==
    /\ pc = "parse_args"
    /\ argv.args # <<>>
    /\ Exit(ArgparseErrorExit)
    /\ UNCHANGED <<argv, warning_threshold, critical_threshold, w_percent,
                   c_percent, percent_true, meminfo, mem, total_free, result, stdout>>

UnpackNamespace ==
    /\ pc = "parse_args"
    /\ argv.args = <<>>
    /\ Crash("TypeError")
    /\ UNCHANGED <<argv, warning_threshold, critical_threshold, w_percent,
                   c_percent, percent_true, meminfo, mem, total_free, result, stdout>>

Init == Start("parse_args")
Next == UnrecognizedArguments \/ UnpackNamespace
Spec == Init /\ [][Next]_vars

(***************************************************************************)
(* main() from its first statement after the option parsing, entered with  *)
(* an (options, args) pair as optparse's parse_args() returns it, and then  *)
(* the script's last two lines.  The shipped script never gets here (Spec). *)
(***************************************************************************)
\* if args: ...; the two "is None" checks.  print_help() formats for the
\* terminal width of the run.
CheckOptions ==
    /\ pc = "main"
    /\ IF argv.args # <<>>
       THEN /\ \E columns \in Columns : PrintLine(Usage[columns])
            /\ Return(IntResult(UNKNOWN))
       ELSE IF argv.warning_threshold = None
       THEN /\ \E columns \in Columns :
                 stdout' = stdout \o
                    << <<"UNKNOWN: you did not specify a warning threshold", "\n">>,
                       Usage[columns] >>
            /\ Return(IntResult(UNKNOWN))
       ELSE IF argv.critical_threshold = None
       THEN /\ \E columns \in Columns :
                 stdout' = stdout \o
                    << <<"UNKNOWN: you did not specify a critical threshold", "\n">>,
                       Usage[columns] >>
            /\ Return(IntResult(UNKNOWN))
       ELSE /\ Goto("parse_warning")
            /\ UNCHANGED <<stdout, result>>
    /\ UNCHANGED <<argv, warning_threshold, critical_threshold, w_percent,
                   c_percent, percent_true, meminfo, mem, total_free>>

\* if warning_threshold[-1] == "%": ... else: ...
ParseWarning ==
    /\ pc = "parse_warning"
    /\ LET p == ParseThreshold(argv.warning_threshold[1])
       IN  IF p.error = "IndexError"
           THEN /\ Crash("IndexError")
                /\ UNCHANGED <<warning_threshold, w_percent, stdout>>
           ELSE IF p.error = "ValueError"
           THEN /\ PrintLine(<<"UNKNOWN: invalid threshold given">>)
                /\ Exit(UNKNOWN)
                /\ UNCHANGED <<warning_threshold, w_percent>>
           ELSE /\ warning_threshold' = p.value
                /\ w_percent' = p.percent
                /\ Goto("parse_critical")
                /\ UNCHANGED stdout
    /\ UNCHANGED <<argv, critical_threshold, c_percent, percent_true, meminfo,
                   mem, total_free, result>>

\* if critical_threshold[-1] == "%": ... else: ...
ParseCritical ==
    /\ pc = "parse_critical"
    /\ LET p == ParseThreshold(argv.critical_threshold[1])
       IN  IF p.error = "IndexError"
           THEN /\ Crash("IndexError")
                /\ UNCHANGED <<critical_threshold, c_percent, stdout>>
           ELSE IF p.error = "ValueError"
           THEN /\ PrintLine(<<"UNKNOWN: invalid threshold given">>)
                /\ Exit(UNKNOWN)
                /\ UNCHANGED <<critical_threshold, c_percent>>
           ELSE /\ critical_threshold' = p.value
                /\ c_percent' = p.percent
                /\ Goto("check_modes")
                /\ UNCHANGED stdout
    /\ UNCHANGED <<argv, warning_threshold, w_percent, percent_true, meminfo,
                   mem, total_free, result>>

\* if w_percent and c_percent: ... elif ...: ... else: print; return UNKNOWN
CheckModes ==
    /\ pc = "check_modes"
    /\ IF w_percent = c_percent
       THEN /\ percent_true' = w_percent
            /\ Goto("check_range")
            /\ UNCHANGED <<stdout, result>>
       ELSE /\ PrintLine(<<"UNKNOWN: please make thresholds either units or percentages, not one of each">>)
            /\ Return(IntResult(UNKNOWN))
            /\ UNCHANGED percent_true
    /\ UNCHANGED <<argv, warning_threshold, critical_threshold, w_percent,
                   c_percent, meminfo, mem, total_free>>

OutOfRange(threshold) == FLt(threshold, Flt(0)) \/ FGt(threshold, Flt(100))

\* if w_percent: ... sys.exit(1); if c_percent: ... sys.exit(1)
CheckRange ==
    /\ pc = "check_range"
    /\ IF w_percent /\ OutOfRange(warning_threshold)
       THEN /\ PrintLine(<<"warning percentage must be between 0 and 100">>)
            /\ Exit(1)
       ELSE IF c_percent /\ OutOfRange(critical_threshold)
       THEN /\ PrintLine(<<"critical percentage must be between 0 and 100">>)
            /\ Exit(1)
       ELSE /\ Goto("check_order")
            /\ UNCHANGED stdout
    /\ UNCHANGED <<argv, warning_threshold, critical_threshold, w_percent,
                   c_percent, percent_true, meminfo, mem, total_free, result>>

\* if warning_threshold <= critical_threshold: ...; return check_ram(...)
CheckOrder ==
    /\ pc = "check_order"
    /\ IF FLe(warning_threshold, critical_threshold)
       THEN /\ PrintLine(<<"UNKNOWN: Critical threshold must be less than Warning threshold">>)
            /\ Return(IntResult(UNKNOWN))
       ELSE /\ Goto("check_ram")
            /\ UNCHANGED <<stdout, result>>
    /\ UNCHANGED <<argv, warning_threshold, critical_threshold, w_percent,
                   c_percent, percent_true, meminfo, mem, total_free>>

\* verbosity = options.verbosity or 0; if verbosity >= 3: print(...)
Opening ==
    IF argv.verbosity >= 3 THEN Append(stdout, <<"Opening /proc/meminfo">>) ELSE stdout

\* open("/proc/meminfo") raises: print the error, return CRITICAL
OpenFails ==
    /\ pc = "check_ram"
    /\ \E e \in OpenErrors :
         stdout' = Append(Opening, <<"RAM CRITICAL: Error opening /proc/meminfo - ", e>>)
    /\ Return(IntResult(CRITICAL))
    /\ UNCHANGED <<argv, warning_threshold, critical_threshold, w_percent,
                   c_percent, percent_true, meminfo, mem, total_free>>

\* open("/proc/meminfo") succeeds; output = f.readlines()
OpenMeminfo ==
    /\ pc = "check_ram"
    /\ meminfo' \in MeminfoFiles
    /\ stdout' = Opening
    /\ Goto("read")
    /\ UNCHANGED <<argv, warning_threshold, critical_threshold, w_percent,
                   c_percent, percent_true, mem, total_free, result>>

\* the for loop over output, then the check of the mandatory values
ReadMeminfo ==
    /\ pc = "read"
    /\ mem' = ReadLines(NoStats, meminfo)
    /\ IF Incomplete(mem')
       THEN /\ PrintLine(<<"UNKNOWN: failed to get mem stats">>)
            /\ Return(IntResult(UNKNOWN))
       ELSE /\ Goto("evaluate")
            /\ UNCHANGED <<stdout, result>>
    /\ UNCHANGED <<argv, warning_threshold, critical_threshold, w_percent,
                   c_percent, percent_true, meminfo, total_free>>

\* the accounting, the comparison and "return [message, state]"
EvaluateRam ==
    /\ pc = "evaluate"
    /\ total_free' = TotalFree(mem, argv.nocache)
    /\ IF percent_true /\ mem.memtotal[1] = 0
       THEN /\ Crash("ZeroDivisionError")
            /\ UNCHANGED result
       ELSE Return(ListResult(Evaluate(warning_threshold, critical_threshold,
                                       percent_true, mem, argv.nocache)))
    /\ UNCHANGED <<argv, warning_threshold, critical_threshold, w_percent,
                   c_percent, percent_true, meminfo, mem, stdout>>

\* result = main(); print(result[0]); sys.exit(result[1])
ScriptEpilogue ==
    /\ pc = "returned"
    /\ IF result.kind = "int"
       THEN /\ Crash("TypeError")
            /\ UNCHANGED stdout
       ELSE /\ PrintLine(result.message)
            /\ Exit(result.state)
    /\ UNCHANGED <<argv, warning_threshold, critical_threshold, w_percent,
                   c_percent, percent_true, meminfo, mem, total_free, result>>

InitMain == Start("main")
NextMain ==
    \/ CheckOptions
    \/ ParseWarning
    \/ ParseCritical
    \/ CheckModes
    \/ CheckRange
    \/ CheckOrder
    \/ OpenFails
    \/ OpenMeminfo
    \/ ReadMeminfo
    \/ EvaluateRam
    \/ ScriptEpilogue
SpecMain == InitMain /\ [][NextMain]_vars

(***************************************************************************)
(* Properties.                                                             *)
(***************************************************************************)
Terminated == pc = "exited"
Evaluated == result.kind = "list"

\* The thresholds as the command line gives them (defined when both are given).
GivenWarning == ParseThreshold(argv.warning_threshold[1])
GivenCritical == ParseThreshold(argv.critical_threshold[1])
BothGiven ==
    argv.args = <<>> /\ argv.warning_threshold # None /\ argv.critical_threshold # None

\* A pair that parses and passes the validation contract.
ValidPair ==
    /\ GivenWarning.error = "" /\ GivenCritical.error = ""
    /\ GivenWarning.percent = GivenCritical.percent
    /\ GivenWarning.percent =>
          /\ FLe(Flt(0), GivenWarning.value) /\ FLe(GivenWarning.value, Flt(100))
          /\ FLe(Flt(0), GivenCritical.value) /\ FLe(GivenCritical.value, Flt(100))
    /\ FGt(GivenWarning.value, GivenCritical.value)

\* A user/configuration error: a malformed threshold (the empty string and a
\* bare suffix included), mixed modes, a percentage outside [0,100],
\* warning <= critical.
ConfigError ==
    \/ GivenWarning.error # "" \/ GivenCritical.error # ""
    \/ GivenWarning.percent # GivenCritical.percent
    \/ GivenWarning.percent /\ OutOfRange(GivenWarning.value)
    \/ GivenCritical.percent /\ OutOfRange(GivenCritical.value)
    \/ FLe(GivenWarning.value, GivenCritical.value)

\* floor(total_free / memtotal * 100) in exact arithmetic.
ExactPercentageFree(free_kb, memtotal) == (100 * free_kb) \div memtotal

\* The status the comparison rule gives a metric.
StatusOf(metric, warning, critical) ==
    IF metric < critical.v THEN CRITICAL
    ELSE IF metric < warning.v THEN WARNING
    ELSE OK

\* C1 (as claimed): for a complete snapshot and a validated pair the status is
\* CRITICAL exactly when the free metric is below critical, WARNING exactly
\* when it is not but is below warning, and OK otherwise, where the metric is
\* total_free in absolute mode and floor(total_free / memtotal * 100) in
\* percentage mode.
C1_StatusFollowsExactMetric ==
    (Evaluated /\ FGt(warning_threshold, critical_threshold)) =>
        result.state =
            StatusOf(IF percent_true
                     THEN ExactPercentageFree(total_free, mem.memtotal[1])
                     ELSE total_free,
                     warning_threshold, critical_threshold)

\* C2 (as claimed): total_free is memfree under nocache, else memavailable
\* whenever MemAvailable is present (0 included), else
\* memfree + memcached + membuffers.
C2_TotalFreePrecedence ==
    Evaluated =>
        total_free =
            IF argv.nocache THEN mem.memfree[1]
            ELSE IF mem.memavailable # None THEN mem.memavailable[1]
            ELSE mem.memfree[1] + mem.memcached[1] + mem.membuffers

\* C3 (as claimed): every user/configuration error ends the run with a
\* message, exit code UNKNOWN and no uncaught exception.
C3_ConfigErrorsExitUnknown ==
    (Terminated /\ BothGiven /\ ConfigError) =>
        exit_code = Some(UNKNOWN) /\ exc = "" /\ stdout # <<>>

\* C4 (as claimed): when /proc/meminfo cannot be opened the run prints one
\* message (after the verbose line, if any) and exits CRITICAL; when a
\* mandatory value is missing it prints one message and exits UNKNOWN; neither
\* ends in an uncaught exception.
OpenFailed == result = IntResult(CRITICAL)
SnapshotIncomplete == meminfo # <<>> /\ Incomplete(mem)
OneMessage == Len(stdout) = (IF argv.verbosity >= 3 THEN 2 ELSE 1)
C4_SourceErrorsExitWithTheirCode ==
    Terminated =>
        /\ OpenFailed => (exit_code = Some(CRITICAL) /\ exc = "" /\ OneMessage)
        /\ SnapshotIncomplete => (exit_code = Some(UNKNOWN) /\ exc = "" /\ OneMessage)

\* C5 (as claimed): an invocation with both thresholds valid and no positional
\* argument ends with the status line printed last and the exit code of the
\* evaluated status, one of 0..3, and with no uncaught exception.
C5_ValidInvocationReportsStatus ==
    (Terminated /\ BothGiven /\ ValidPair) =>
        /\ exc = ""
        /\ stdout # <<>>
        /\ exit_code \in {Some(OK), Some(WARNING), Some(CRITICAL), Some(UNKNOWN)}
        /\ Evaluated => (exit_code = Some(result.state)
                          /\ stdout[Len(stdout)] = result.message)

\* C6 (as claimed): check_ram is entered only with thresholds of one mode,
\* every percentage threshold in [0,100], and warning > critical.
InRange(threshold) == FLe(Flt(0), threshold) /\ FLe(threshold, Flt(100))
Tag(message) == SubSeq(message, Len(message) - 4, Len(message))
HasParenthetical(message) ==
    \E i \in 1..(Len(message) - 4) :
        message[i] = " (" /\ message[i + 2] = "/" /\ message[i + 4] = " MB used)"
ParentheticalUsed(message) ==
    {message[i + 1] : i \in {j \in 1..(Len(message) - 4) : message[j] = " ("}}

AvailableValues == {None, Some(0), Some(1450), Some(4350)}

\* C7: the used-memory figure and the whole memused tag of an evaluation are
\* those of total - free - cached - buffers and total, in MB, and evaluating
\* the same snapshot with the other nocache flag, or with MemAvailable absent
\* or present with another value, gives the same tag and the same used figure.
C7_UsedAndTagIgnoreAccounting ==
    Evaluated =>
        LET used == TruncDiv(mem.memtotal[1] - mem.memfree[1] - mem.memcached[1]
                                - mem.membuffers, 1024)
            total == TruncDiv(mem.memtotal[1], 1024)
        IN  /\ Tag(result.message) = <<"|memused=", ToString(used), ";", ToString(total), ";">>
            /\ ParentheticalUsed(result.message) \subseteq {ToString(used)}
            /\ \A nc \in BOOLEAN, av \in AvailableValues :
                  LET other == Evaluate(warning_threshold, critical_threshold,
                                        percent_true,
                                        [mem EXCEPT !.memavailable = av], nc)
                  IN  /\ Tag(other.message) = Tag(result.message)
                      /\ ParentheticalUsed(other.message) \subseteq {ToString(used)}

\* C7 witness: an evaluation whose status changes when nocache is toggled.
C7_Witness ==
    /\ Evaluated
    /\ Evaluate(warning_threshold, critical_threshold, percent_true, mem,
                ~argv.nocache).state # result.state

\* What the claim says a string of a numeric prefix and a suffix parses to.
NumericPrefixes == {p \in AllPrefixes : PyFloat(p) # None}
ExpectedParse(n, suffix) ==
    IF suffix = <<"%">> THEN [error |-> "", value |-> n, percent |-> TRUE]
    ELSE IF suffix \in {<<"M">>, <<"m">>, <<"M", "B">>, <<"M", "b">>, <<"m", "B">>, <<"m", "b">>}
    THEN [error |-> "", value |-> FMul(n, 1024), percent |-> FALSE]
    ELSE IF suffix \in {<<"G">>, <<"g">>, <<"G", "B">>, <<"G", "b">>, <<"g", "B">>, <<"g", "b">>}
    THEN [error |-> "", value |-> FMul(n, 1024 * 1024), percent |-> FALSE]
    ELSE [error |-> "", value |-> n, percent |-> FALSE]
ClaimedSuffixes == AllSuffixes \ {<<"K", "B">>}
ParsesAsClaimed(str, at, value, percent) ==
    \A p \in NumericPrefixes, x \in ClaimedSuffixes :
        str = p \o x =>
            /\ pc' = at
            /\ value = ExpectedParse(PyFloat(p)[1], x).value
            /\ percent = ExpectedParse(PyFloat(p)[1], x).percent

\* C8: a threshold made of a numeric prefix n and a suffix parses, for the
\* warning and for the critical option alike, to n as a percentage for "%",
\* to n * 1024 KB for M or MB in any letter case, to n * 1024 * 1024 KB for G
\* or GB in any letter case, and to n KB without a suffix; only "%" sets
\* percentage mode.
C8_ParserUnits ==
    [][/\ pc = "parse_warning" =>
            ParsesAsClaimed(argv.warning_threshold[1], "parse_critical",
                            warning_threshold', w_percent')
       /\ pc = "parse_critical" =>
            ParsesAsClaimed(argv.critical_threshold[1], "check_modes",
                            critical_threshold', c_percent')]_vars

\* C8 witness: "2GB" and "2G" have both been parsed, to the same 2 * 1024 * 1024.
C8_Witness ==
    /\ pc = "check_modes"
    /\ argv.warning_threshold = Some(<<"2", "G", "B">>)
    /\ argv.critical_threshold = Some(<<"2", "G">>)
    /\ warning_threshold = Flt(2097152)
    /\ critical_threshold = warning_threshold
    /\ ~w_percent /\ ~c_percent

LevelPrefix(state) ==
    CASE state = OK -> "RAM OK: "
      [] state = WARNING -> "RAM WARNING: "
      [] state = CRITICAL -> "RAM CRITICAL: "

\* C9: the status line of a completed evaluation starts with "RAM <LEVEL>:"
\* for the returned status, has the "(U/T MB used)" parenthetical exactly when
\* the status is WARNING or CRITICAL, ends with the memused tag, and is what
\* the script prints last.
C9_StatusLineFormat ==
    Evaluated =>
        /\ result.state \in {OK, WARNING, CRITICAL}
        /\ result.message[1] = LevelPrefix(result.state)
        /\ HasParenthetical(result.message) <=> result.state \in {WARNING, CRITICAL}
        /\ Tag(result.message)[1] = "|memused="
        /\ Tag(result.message)[3] = ";" /\ Tag(result.message)[5] = ";"
        /\ Terminated => stdout[Len(stdout)] = result.message

\* C9 witness: an OK line in absolute mode has been printed.
C9_Witness ==
    /\ Terminated /\ Evaluated
    /\ ~percent_true
    /\ result.state = OK
    /\ stdout[Len(stdout)] = result.message

CompleteSnapshots ==
    {m \in {ReadLines(NoStats, f) : f \in MeminfoFiles} : ~Incomplete(m)}

\* C10: with the thresholds, the mode and memtotal fixed, a snapshot with no
\* more free memory gets a status at least as severe; and with
\* warning > critical a CRITICAL metric is below the warning threshold too.
C10_SeverityMonotone ==
    Evaluated =>
        /\ \A m \in CompleteSnapshots, nc \in BOOLEAN :
              (m.memtotal = mem.memtotal /\ TotalFree(m, nc) <= total_free) =>
                  Evaluate(warning_threshold, critical_threshold, percent_true,
                           m, nc).state >= result.state
        /\ (FGt(warning_threshold, critical_threshold) /\ result.state = CRITICAL) =>
              (IF percent_true THEN PercentageFree(total_free, mem.memtotal[1])
                               ELSE total_free) < warning_threshold.v

\* C10 witness: some snapshot with less free memory is strictly more severe.
C10_Witness ==
    /\ Evaluated
    /\ \E m \in CompleteSnapshots, nc \in BOOLEAN :
          /\ m.memtotal = mem.memtotal
          /\ TotalFree(m, nc) < total_free
          /\ Evaluate(warning_threshold, critical_threshold, percent_true,
                      m, nc).state > result.state

====
